---- MODULE Spec2Model ----
(***************************************************************************)
(* Model of the ZIP radius lookup tools (zip_radius_offline.py and         *)
(* zip_radius_lookup.py): the GeoNames cache manager, the flat-file        *)
(* loader, the radius search engine and the two command-line facades.      *)
(*                                                                         *)
(* Numbers are fixed point.  Coordinates are whole tenths of a degree,     *)
(* radii and distances whole kilometres, clock values whole seconds.       *)
(* File contents are strings, read character by character.                 *)
(***************************************************************************)
EXTENDS Integers, Sequences, FiniteSets, TLC

VARIABLES
    now,            \* time.time(), in seconds
    ticks,          \* how often the clock was advanced between steps
    cacheDir,       \* whether GEONAMES_DIR exists
    txt,            \* the flat-file GEONAMES_TXT: exists, data, mtime
    zipf,           \* the archive file GEONAMES_ZIP: exists, data
    proc,           \* per process: the tool it runs, its position and its locals
    refreshFailed,  \* history: a refresh has failed and none has succeeded since
    lastWriter,     \* history: the entry extracted by the write that completed last
    fileText,       \* loader harness: contents of the flat-file handed to the parser
    loadResult,     \* loader harness: outcome of load_geonames_rows on fileText
    query,          \* search harness: query point, radius and rows
    nearbyOut,      \* search harness: result of nearby_zips_by_radius
    nearestOut      \* search harness: result of nearest_zip

cacheVars == <<now, ticks, cacheDir, txt, zipf, proc, refreshFailed, lastWriter>>
loadVars == <<fileText, loadResult>>
searchVars == <<query, nearbyOut, nearestOut>>
vars == <<cacheVars, loadVars, searchVars>>

(***************************************************************************)
(* Text helpers: Python str operations used by the loader.                 *)
(***************************************************************************)
TAB == "\t"
NL == "\n"
QUOTE == "\""
DIGITS == "0123456789"

CharAt(s, i) == SubSeq(s, i, i)

IsDigitChar(c) == \E k \in 1..Len(DIGITS) : CharAt(DIGITS, k) = c

DigitVal(c) == (CHOOSE k \in 1..Len(DIGITS) : CharAt(DIGITS, k) = c) - 1

IsSpaceChar(c) == c \in {" ", TAB, NL}

RECURSIVE LStrip(_)
LStrip(s) ==
    IF Len(s) > 0 /\ IsSpaceChar(CharAt(s, 1))
    THEN LStrip(SubSeq(s, 2, Len(s)))
    ELSE s

RECURSIVE RStrip(_)
RStrip(s) ==
    IF Len(s) > 0 /\ IsSpaceChar(CharAt(s, Len(s)))
    THEN RStrip(SubSeq(s, 1, Len(s) - 1))
    ELSE s

\* str.strip()
Strip(s) == RStrip(LStrip(s))

\* str.isdigit(): non-empty and every character a digit
IsDigit(s) == Len(s) > 0 /\ \A k \in 1..Len(s) : IsDigitChar(CharAt(s, k))

\* str.zfill(width) on a string without a sign
RECURSIVE ZFill(_, _)
ZFill(s, width) == IF Len(s) >= width THEN s ELSE ZFill("0" \o s, width)

(***************************************************************************)
(* csv.reader(f, delimiter="\t"): the excel dialect's state machine with   *)
(* quotechar '"', doublequote on, strict off.  A field that starts with a  *)
(* quote runs to the closing quote, across tabs and line ends.             *)
(***************************************************************************)
\* The reader's parse state: its automaton state, the field and the record being
\* built, and the records already returned.
CsvStart == [state |-> "START_RECORD", field |-> "", rec |-> <<>>, out |-> <<>>]

\* parse_process_char on one character of a line; a line end is the character "\n"
\* followed by the end-of-line marker the reader feeds after every line.
ProcessChar(st, c) ==
    LET endRecord == [state |-> "START_RECORD", field |-> "", rec |-> <<>>,
                      out |-> Append(st.out, Append(st.rec, st.field))]
        endField == [st EXCEPT !.state = "START_FIELD", !.field = "",
                               !.rec = Append(st.rec, st.field)]
        addTo(next) == [st EXCEPT !.state = next, !.field = st.field \o c]
    IN  CASE st.state = "START_RECORD" /\ c = NL ->
               [st EXCEPT !.out = Append(st.out, <<>>)]
          [] st.state \in {"START_RECORD", "START_FIELD"} /\ c # NL ->
               IF c = QUOTE THEN [st EXCEPT !.state = "IN_QUOTED_FIELD"]
               ELSE IF c = TAB THEN endField
               ELSE addTo("IN_FIELD")
          [] st.state = "START_FIELD" /\ c = NL -> endRecord
          [] st.state = "IN_FIELD" ->
               IF c = NL THEN endRecord
               ELSE IF c = TAB THEN endField
               ELSE addTo("IN_FIELD")
          [] st.state = "IN_QUOTED_FIELD" ->
               IF c = QUOTE THEN [st EXCEPT !.state = "QUOTE_IN_QUOTED_FIELD"]
               ELSE addTo("IN_QUOTED_FIELD")
          [] st.state = "QUOTE_IN_QUOTED_FIELD" ->
               IF c = QUOTE THEN addTo("IN_QUOTED_FIELD")
               ELSE IF c = TAB THEN endField
               ELSE IF c = NL THEN endRecord
               ELSE addTo("IN_FIELD")

\* The characters text[lo..hi] fed to the reader in order, from parse state st.
RECURSIVE ProcessChars(_, _, _, _)
ProcessChars(st, text, lo, hi) ==
    IF lo > hi THEN st
    ELSE IF lo = hi THEN ProcessChar(st, CharAt(text, lo))
    ELSE LET mid == (lo + hi) \div 2
             left == ProcessChars(st, text, lo, mid)
         IN  \* the test only makes the left half be computed before the right one
             IF left.state = "" THEN left ELSE ProcessChars(left, text, mid + 1, hi)

\* End of input: a last line without a line end, or an open quoted field, still
\* yields its record.
CsvFinish(st) ==
    IF st.state = "START_RECORD" THEN st.out ELSE Append(st.out, Append(st.rec, st.field))

CsvReader(text) == CsvFinish(ProcessChars(CsvStart, text, 1, Len(text)))

(***************************************************************************)
(* float(s) on the decimal literals the flat-file holds: optional white    *)
(* space, an optional sign, digits with an optional decimal point.  The    *)
(* value is kept in tenths (the first fractional digit).  Any other text   *)
(* over the modelled alphabet raises ValueError.                           *)
(***************************************************************************)
ValueError == [ok |-> FALSE, val |-> 0]
FloatVal(v) == [ok |-> TRUE, val |-> v]

RECURSIVE DigitsPrefixLen(_)
DigitsPrefixLen(s) ==
    IF Len(s) > 0 /\ IsDigitChar(CharAt(s, 1))
    THEN 1 + DigitsPrefixLen(SubSeq(s, 2, Len(s)))
    ELSE 0

RECURSIVE DecimalVal(_)
DecimalVal(s) ==
    IF Len(s) = 0 THEN 0
    ELSE 10 * DecimalVal(SubSeq(s, 1, Len(s) - 1)) + DigitVal(CharAt(s, Len(s)))

ParseFloat(raw) ==
    LET s == Strip(raw)
        signed == Len(s) > 0 /\ CharAt(s, 1) \in {"+", "-"}
        sign == IF signed /\ CharAt(s, 1) = "-" THEN -1 ELSE 1
        body == IF signed THEN SubSeq(s, 2, Len(s)) ELSE s
        nInt == DigitsPrefixLen(body)
        intPart == SubSeq(body, 1, nInt)
        rest == SubSeq(body, nInt + 1, Len(body))
        hasPoint == Len(rest) > 0 /\ CharAt(rest, 1) = "."
        frac == IF hasPoint THEN SubSeq(rest, 2, Len(rest)) ELSE ""
        tenths == IF Len(frac) > 0 THEN DigitVal(CharAt(frac, 1)) ELSE 0
    IN  IF nInt + Len(frac) = 0 THEN ValueError
        ELSE IF ~hasPoint /\ Len(rest) > 0 THEN ValueError
        ELSE IF hasPoint /\ ~(\A k \in 1..Len(frac) : IsDigitChar(CharAt(frac, k))) THEN ValueError
        ELSE FloatVal(sign * (10 * DecimalVal(intPart) + tenths))

(***************************************************************************)
(* load_geonames_rows, after the path is known: parse the flat-file into   *)
(* rows.  Columns are numbered from 0 as in the source.                    *)
(***************************************************************************)
MIN_COLUMNS == 11
COL_POSTAL == 1
COL_PLACE == 2
COL_STATE == 4
COL_LAT == 9
COL_LON == 10
ZIP_WIDTH == 5

Col(rec, k) == rec[k + 1]

Row(zip, city, state, lat, lon) ==
    [zip |-> zip, city |-> city, state |-> state, lat |-> lat, lon |-> lon]

\* One pass of the "for rec in reader" loop body: rows with rec's row appended, or rows.
ParseRecord(rows, rec) ==
    IF Len(rec) < MIN_COLUMNS THEN rows
    ELSE
      LET pc == Strip(Col(rec, COL_POSTAL))
          place == Strip(Col(rec, COL_PLACE))
          state == Strip(Col(rec, COL_STATE))
          zlat == ParseFloat(Col(rec, COL_LAT))
          zlon == ParseFloat(Col(rec, COL_LON))
      IN  IF ~zlat.ok \/ ~zlon.ok THEN rows
          ELSE IF pc # ""
          THEN Append(rows, Row(IF IsDigit(pc) THEN ZFill(pc, ZIP_WIDTH) ELSE pc,
                                place, state, zlat.val, zlon.val))
          ELSE rows

RECURSIVE ParseRecords(_, _, _)
ParseRecords(recs, k, rows) ==
    IF k > Len(recs) THEN rows
    ELSE ParseRecords(recs, k + 1, ParseRecord(rows, recs[k]))

\* The rows list built from the file's text.
ReadRows(text) == ParseRecords(CsvReader(text), 1, <<>>)

\* The call's outcome: the rows, or RuntimeError("No rows parsed ...").
LoadRows(text) ==
    LET rows == ReadRows(text)
    IN  IF rows = <<>>
        THEN [status |-> "error", rows |-> <<>>]
        ELSE [status |-> "ok", rows |-> rows]

(***************************************************************************)
(* Math helpers.  Angles handed to the trigonometric functions are whole   *)
(* twentieths of a degree (half of a coordinate unit, as the haversine     *)
(* formula halves coordinate differences); their values are scaled by      *)
(* TRIG_SCALE.  math.sin is the table of exact values every 5 degrees,     *)
(* linear in between; math.asin is its inverse.                            *)
(***************************************************************************)
TRIG_SCALE == 10000
SIN_TABLE ==
    <<0, 872, 1736, 2588, 3420, 4226, 5000, 5736, 6428, 7071,
      7660, 8192, 8660, 9063, 9397, 9659, 9848, 9962, 10000>>
TABLE_STEP == 100          \* 5 degrees, in twentieths of a degree
TABLE_STEP_RAD == 8727     \* 5 degrees, in 1e-5 radians
RAD_SCALE == 100000
QUARTER_TURN == 1800
HALF_TURN == 3600
FULL_TURN == 7200

Max(a, b) == IF a >= b THEN a ELSE b
Min(a, b) == IF a <= b THEN a ELSE b

\* sin on [0, 90] degrees
SinFirstQuadrant(u) ==
    LET k == u \div TABLE_STEP
        t == u % TABLE_STEP
    IN  IF t = 0 THEN SIN_TABLE[k + 1]
        ELSE SIN_TABLE[k + 1] + ((SIN_TABLE[k + 2] - SIN_TABLE[k + 1]) * t) \div TABLE_STEP

\* math.sin
Sin(u) ==
    LET v == u % FULL_TURN
        w == IF v >= HALF_TURN THEN v - HALF_TURN ELSE v
        x == IF w > QUARTER_TURN THEN HALF_TURN - w ELSE w
    IN  IF v >= HALF_TURN THEN 0 - SinFirstQuadrant(x) ELSE SinFirstQuadrant(x)

\* math.cos
Cos(u) == Sin(u + QUARTER_TURN)

\* math.sqrt on a value scaled by TRIG_SCALE^2, the root scaled by TRIG_SCALE
RECURSIVE SqrtBetween(_, _, _)
SqrtBetween(n, lo, hi) ==
    IF lo >= hi THEN lo
    ELSE LET mid == (lo + hi + 1) \div 2
         IN  IF mid * mid <= n THEN SqrtBetween(n, mid, hi) ELSE SqrtBetween(n, lo, mid - 1)

Sqrt(n) == SqrtBetween(n, 0, TRIG_SCALE)

\* math.asin on [0, 1], in 1e-5 radians
Asin(s) ==
    LET k == CHOOSE j \in 1..(Len(SIN_TABLE) - 1) :
                 /\ SIN_TABLE[j] <= s
                 /\ (s < SIN_TABLE[j + 1] \/ j = Len(SIN_TABLE) - 1)
    IN  (k - 1) * TABLE_STEP_RAD
          + ((s - SIN_TABLE[k]) * TABLE_STEP_RAD) \div (SIN_TABLE[k + 1] - SIN_TABLE[k])

\* miles_to_km: mi / 0.621371
MILES_PER_KM_E6 == 621371
miles_to_km(mi) == (mi * 1000000) \div MILES_PER_KM_E6

\* haversine_km, in whole kilometres; coordinates in tenths of a degree
EARTH_RADIUS_KM == 6371
haversine_km(lat1, lon1, lat2, lon2) ==
    LET cp1 == Cos(2 * lat1)
        cp2 == Cos(2 * lat2)
        sdphi == Sin(lat2 - lat1)          \* sin(dphi/2)
        sdlmb == Sin(lon2 - lon1)          \* sin(dlmb/2)
        a == sdphi * sdphi
               + ((cp1 * cp2) \div TRIG_SCALE) * ((sdlmb * sdlmb) \div TRIG_SCALE)
    IN  (2 * EARTH_RADIUS_KM * Asin(Sqrt(a))) \div RAD_SCALE

(***************************************************************************)
(* Core lookups.                                                           *)
(***************************************************************************)
INFINITY == 2147483647     \* float("inf")

\* A scan that lets a later row at the same distance replace the best one.
RECURSIVE NearestScanLast(_, _, _, _, _, _)
NearestScanLast(lat, lon, rows, k, best, best_d) ==
    IF k > Len(rows) THEN [best |-> best, best_d |-> best_d]
    ELSE LET d == haversine_km(lat, lon, rows[k].lat, rows[k].lon)
         IN  IF d <= best_d
             THEN NearestScanLast(lat, lon, rows, k + 1, k, d)
             ELSE NearestScanLast(lat, lon, rows, k + 1, best, best_d)

\* nearest_zip's loop over rows[k..]: the best row's index (0 for None) and distance
RECURSIVE NearestScan(_, _, _, _, _, _)
NearestScan(lat, lon, rows, k, best, best_d) ==
    IF k > Len(rows) THEN [best |-> best, best_d |-> best_d]
    ELSE LET d == haversine_km(lat, lon, rows[k].lat, rows[k].lon)
         IN  IF d < best_d
             THEN NearestScan(lat, lon, rows, k + 1, k, d)
             ELSE NearestScan(lat, lon, rows, k + 1, best, best_d)

\* nearest_zip: the tuple returned, or the TypeError of subscripting None
nearest_zip(lat, lon, rows) ==
    LET found == NearestScan(lat, lon, rows, 1, 0, INFINITY)
    IN  IF found.best = 0
        THEN [status |-> "error"]
        ELSE LET best == rows[found.best]
             IN  [status |-> "ok", zip |-> best.zip, dist_km |-> found.best_d,
                  city |-> best.city, state |-> best.state,
                  lat |-> best.lat, lon |-> best.lon]

\* floor(n * 10^k / d) for n >= 0, d > 0, by long division
RECURSIVE LongDivide(_, _, _, _)
LongDivide(q, rem, d, k) ==
    IF k = 0 THEN q
    ELSE LongDivide(10 * q + (10 * rem) \div d, (10 * rem) % d, d, k - 1)

ScaledQuotient(n, k, d) == LongDivide(n \div d, n % d, d, k)

KM_PER_DEGREE == 111
LON_SCALE_FLOOR == 1       \* 0.000001, scaled by 1e6
LON_SCALE_DIGITS == 6

\* {**r, "dist_km": dkm}
WithDist(r, dkm) ==
    [zip |-> r.zip, city |-> r.city, state |-> r.state, lat |-> r.lat, lon |-> r.lon,
     dist_km |-> dkm]

\* A sort step that places x in front of the elements with an equal key.
RECURSIVE InsertByDistUnstable(_, _)
InsertByDistUnstable(sorted, x) ==
    IF sorted = <<>> THEN <<x>>
    ELSE IF sorted[Len(sorted)].dist_km < x.dist_km THEN Append(sorted, x)
    ELSE Append(InsertByDistUnstable(SubSeq(sorted, 1, Len(sorted) - 1), x),
                sorted[Len(sorted)])

\* list.sort(key=dist_km): place x behind every element whose key is not larger
RECURSIVE InsertByDist(_, _)
InsertByDist(sorted, x) ==
    IF sorted = <<>> THEN <<x>>
    ELSE IF sorted[Len(sorted)].dist_km <= x.dist_km THEN Append(sorted, x)
    ELSE Append(InsertByDist(SubSeq(sorted, 1, Len(sorted) - 1), x), sorted[Len(sorted)])

RECURSIVE SortByDist(_)
SortByDist(seq) ==
    IF seq = <<>> THEN <<>>
    ELSE InsertByDist(SortByDist(SubSeq(seq, 1, Len(seq) - 1)), seq[Len(seq)])

EPSILON_KM == 0            \* 1e-9 km, below the whole-kilometre resolution

\* The bounding box of the quick prune: a coordinate n (whole tenths) lies below
\* lat - dlat exactly when it lies below lat - floor(dlat), and likewise above.
BBox(lat, lon, radius_km) ==
    LET dlat == (10 * radius_km) \div KM_PER_DEGREE
        lon_scale == Max(LON_SCALE_FLOOR, Cos(2 * lat) * (1000000 \div TRIG_SCALE))
        dlon == ScaledQuotient(radius_km, LON_SCALE_DIGITS + 1, KM_PER_DEGREE * lon_scale)
    IN  [lat_min |-> lat - dlat, lat_max |-> lat + dlat,
         lon_min |-> lon - dlon, lon_max |-> lon + dlon]

\* the loop of nearby_zips_by_radius over rows[k..], appending to out
RECURSIVE NearbyScan(_, _, _, _, _, _, _)
NearbyScan(lat, lon, radius_km, box, rows, k, out) ==
    IF k > Len(rows) THEN out
    ELSE LET r == rows[k]
             dkm == haversine_km(lat, lon, r.lat, r.lon)
             next(o) == NearbyScan(lat, lon, radius_km, box, rows, k + 1, o)
         IN  IF r.lat < box.lat_min \/ r.lat > box.lat_max
                  \/ r.lon < box.lon_min \/ r.lon > box.lon_max
             THEN next(out)
             ELSE IF dkm <= radius_km + EPSILON_KM
             THEN next(Append(out, WithDist(r, dkm)))
             ELSE next(out)

\* nearby_zips_by_radius on loaded rows, radius_km >= 0
nearby_zips_by_radius(lat, lon, radius_km, rows) ==
    SortByDist(NearbyScan(lat, lon, radius_km, BBox(lat, lon, radius_km), rows, 1, <<>>))

(***************************************************************************)
(* The reverse-geocoding collaborator (zip_radius_lookup.py only).         *)
(***************************************************************************)
None == "None"
RETRIES == 3

\* What one GET to Nominatim can produce.
GeoResponses ==
    { [kind |-> "ok", postcode |-> "94536"],
      [kind |-> "ok", postcode |-> "94536-1234"],
      [kind |-> "http_error", postcode |-> None],
      [kind |-> "non_json", postcode |-> None],
      [kind |-> "no_postcode", postcode |-> None] }

\* postcode.split("-")[0]
SplitDashHead(s) ==
    IF \E k \in 1..Len(s) : CharAt(s, k) = "-"
    THEN LET first == CHOOSE k \in 1..Len(s) :
                          /\ CharAt(s, k) = "-"
                          /\ \A j \in 1..(k - 1) : CharAt(s, j) # "-"
         IN  SubSeq(s, 1, first - 1)
    ELSE s

\* last_err after a failed attempt.  The time.sleep that follows is a delay only:
\* the clock is advanced by Tick.
LastErr(resp) ==
    CASE resp.kind = "http_error" -> "HTTP error"
      [] resp.kind = "non_json" -> "Non-JSON response from Nominatim."
      [] OTHER -> "No postcode in Nominatim response."

(***************************************************************************)
(* The dataset cache shared by the processes, and what the GeoNames server *)
(* can send.                                                               *)
(***************************************************************************)
SECONDS_PER_DAY == 86400
MAX_AGE_DAYS == 180

LineA1 == "US\t501\tA\t\tNY\t\t\t\t\t40.0\t-120.0\t4\n"
LineA2 == "US\t99\tB\t\tAK\t\t\t\t\t40.0\t-110.0\t4\n"
LineB3 == "US\tAB1\tC\t\tCA\t\t\t\t\t50.0\t-120.0\t4\n"
DatasetA == LineA1 \o LineA2
DatasetB == LineA2 \o LineA1 \o LineB3
Datasets == {DatasetA, DatasetB}

NoData == [kind |-> "none", content |-> ""]
Archive(kind, content) == [kind |-> kind, content |-> content]

\* Response bodies of the download: not a zip file, a zip file without the entry
\* US.txt, one whose entry fails its CRC check when read, and sound archives.
Archives ==
    { Archive("garbage", ""), Archive("no_entry", ""), Archive("bad_crc", DatasetA) }
      \cup { Archive("good", d) : d \in Datasets }

NumProcs == 2
Procs == 1..NumProcs
MaxTicks == 1
TickSteps == {1}
InitAges == {MAX_AGE_DAYS * SECONDS_PER_DAY - 1, 200 * SECONDS_PER_DAY}

\* The two tools share the cache directory; odd processes run zip_radius_offline.py,
\* even ones zip_radius_lookup.py.
ToolOf(p) == IF p % 2 = 1 THEN "offline" ELSE "lookup"

\* Command lines: --lat --lon --radius --units --show
ArgsOf(p) ==
    IF p % 2 = 1
    THEN [lat |-> 400, lon |-> -1200, radius |-> 1000, units |-> "mi", show |-> 1]
    ELSE [lat |-> 400, lon |-> -1200, radius |-> 900, units |-> "km", show |-> 50]

NotLoaded == [status |-> "none", rows |-> <<>>]
NotSeen == [checked |-> FALSE, exists |-> FALSE, age |-> 0]
NoReturn == [kind |-> "none", zip_here |-> None, nearby |-> <<>>]

\* A process as main() starts get_zip_and_nearby.  The lookup tool geocodes first;
\* the offline tool goes straight to load_geonames_rows.
InitProc(tool, args) ==
    [tool |-> tool, args |-> args,
     pc |-> IF tool = "lookup" THEN "geocode" ELSE "ensure",
     attempt |-> 0, last_err |-> None, zip_here |-> None,
     data |-> NoData,
     seen |-> NotSeen,        \* history: what the freshness check saw
     netCalls |-> 0,          \* history: downloads attempted by this process
     load |-> NotLoaded, ret |-> NoReturn, exitCode |-> -1,
     stderr |-> <<>>, stdout |-> <<>>]

\* A freshness test that also accepts a file of exactly max_age_days.
FreshInclusive(age_seconds, max_age_days) == age_seconds <= max_age_days * SECONDS_PER_DAY

\* age_days < max_age_days, with age_days = age_seconds / 86400.0
Fresh(age_seconds, max_age_days) == age_seconds < max_age_days * SECONDS_PER_DAY

\* A write of bytes at offset 0 of a file holding old: bytes past the write stay.
Overlay(old, bytes) == bytes \o SubSeq(old, Len(bytes) + 1, Len(old))

\* What a write that fails part-way (disk full) leaves of bytes.
PartialWrites(bytes) == {SubSeq(bytes, 1, Len(bytes) \div 2)}

\* An exception leaves load_geonames_rows / nearby_zips_by_radius in a process
\* with record r.  The lookup tool catches it, reports it and returns an empty
\* list; in the offline tool nothing catches it and the interpreter exits 1.
Raised(r) ==
    IF r.tool = "lookup"
    THEN [r EXCEPT !.pc = "done", !.data = NoData,
                   !.load = [status |-> "error", rows |-> <<>>],
                   !.stderr = Append(@, "[error] Nearby ZIP lookup failed"),
                   !.ret = [kind |-> "return", zip_here |-> r.zip_here, nearby |-> <<>>],
                   !.exitCode = 0]
    ELSE [r EXCEPT !.pc = "done", !.data = NoData,
                   !.load = [status |-> "error", rows |-> <<>>],
                   !.stderr = Append(@, "Traceback (most recent call last)"),
                   !.ret = [kind |-> "raise", zip_here |-> None, nearby |-> <<>>],
                   !.exitCode = 1]

\* nearby[:show], one printed line per row
RECURSIVE PrintRows(_, _, _)
PrintRows(nearby, show, i) ==
    IF i > Min(show, Len(nearby)) THEN <<>>
    ELSE <<"row " \o nearby[i].zip>> \o PrintRows(nearby, show, i + 1)

\* get_zip_and_nearby once the rows are loaded, to its return.
Searched(r, rows) ==
    LET a == r.args
        radius_km == IF a.units = "km" THEN a.radius ELSE miles_to_km(a.radius)
        nearby == nearby_zips_by_radius(a.lat, a.lon, radius_km, rows)
        near == nearest_zip(a.lat, a.lon, rows)
        listing == <<"", "Nearby ZIPs within">> \o PrintRows(nearby, a.show, 1)
    IN  IF r.tool = "lookup"
        THEN [r EXCEPT !.pc = "done", !.load = [status |-> "ok", rows |-> rows],
                       !.stdout = @ \o listing,
                       !.ret = [kind |-> "return", zip_here |-> r.zip_here, nearby |-> nearby],
                       !.exitCode = 0]
        ELSE IF near.status = "error" THEN Raised(r)
        ELSE [r EXCEPT !.pc = "done", !.load = [status |-> "ok", rows |-> rows],
                       !.zip_here = near.zip,
                       !.stdout = <<"Nearest ZIP (centroid) " \o near.zip>> \o listing,
                       !.ret = [kind |-> "return", zip_here |-> near.zip, nearby |-> nearby],
                       !.exitCode = 0]

(***************************************************************************)
(* Steps of a process.  A step is one blocking call (a network round trip  *)
(* or a file operation) with the computation that follows it.              *)
(***************************************************************************)
SetProc(p, r) == proc' = [proc EXCEPT ![p] = r]

\* reverse_zip_from_latlon: an attempt that returns the postal code
GeocodeOk(p) ==
    /\ proc[p].pc = "geocode"
    /\ \E resp \in GeoResponses :
         /\ resp.kind = "ok"
         /\ LET zip == SplitDashHead(resp.postcode)
            IN  SetProc(p, [proc[p] EXCEPT !.pc = "ensure", !.zip_here = zip,
                                           !.stdout = Append(@, "ZIP " \o zip)])
    /\ UNCHANGED <<loadVars, searchVars, now, ticks, cacheDir, txt, zipf, refreshFailed, lastWriter>>

\* a failed attempt with attempts left: sleep, then try again
GeocodeRetry(p) ==
    /\ proc[p].pc = "geocode"
    /\ proc[p].attempt + 1 < RETRIES
    /\ \E resp \in GeoResponses :
         /\ resp.kind # "ok"
         /\ SetProc(p, [proc[p] EXCEPT !.attempt = @ + 1, !.last_err = LastErr(resp)])
    /\ UNCHANGED <<loadVars, searchVars, now, ticks, cacheDir, txt, zipf, refreshFailed, lastWriter>>

\* A facade that lets the geocoding error end the query.
GeocodeAbort(p) ==
    /\ proc[p].pc = "geocode"
    /\ proc[p].attempt + 1 = RETRIES
    /\ \E resp \in GeoResponses :
         /\ resp.kind # "ok"
         /\ SetProc(p, [proc[p] EXCEPT !.attempt = @ + 1, !.last_err = LastErr(resp),
                                        !.pc = "done", !.exitCode = 1,
                                        !.ret = [kind |-> "raise", zip_here |-> None,
                                                 nearby |-> <<>>]])
    /\ UNCHANGED <<loadVars, searchVars, now, ticks, cacheDir, txt, zipf, refreshFailed, lastWriter>>

\* the last attempt fails: RuntimeError, caught by get_zip_and_nearby
GeocodeGiveUp(p) ==
    /\ proc[p].pc = "geocode"
    /\ proc[p].attempt + 1 = RETRIES
    /\ \E resp \in GeoResponses :
         /\ resp.kind # "ok"
         /\ SetProc(p, [proc[p] EXCEPT !.attempt = @ + 1, !.last_err = LastErr(resp),
                                        !.zip_here = None, !.pc = "ensure",
                                        !.stderr = Append(@, "[warn] Could not get ZIP from Nominatim"),
                                        !.stdout = Append(@, "ZIP <unknown>")])
    /\ UNCHANGED <<loadVars, searchVars, now, ticks, cacheDir, txt, zipf, refreshFailed, lastWriter>>

Seen == [checked |-> TRUE, exists |-> txt.exists,
         age |-> IF txt.exists THEN now - txt.mtime ELSE 0]

\* ensure_geonames_us: the flat-file exists and is recent; its path is returned
EnsureFresh(p) ==
    /\ proc[p].pc = "ensure"
    /\ txt.exists /\ Fresh(now - txt.mtime, MAX_AGE_DAYS)
    /\ cacheDir' = TRUE
    /\ SetProc(p, [proc[p] EXCEPT !.pc = "read", !.seen = Seen])
    /\ UNCHANGED <<loadVars, searchVars, now, ticks, txt, zipf, refreshFailed, lastWriter>>

\* ensure_geonames_us: the flat-file is missing or old; go on to the download
EnsureStale(p) ==
    /\ proc[p].pc = "ensure"
    /\ ~(txt.exists /\ Fresh(now - txt.mtime, MAX_AGE_DAYS))
    /\ cacheDir' = TRUE
    /\ SetProc(p, [proc[p] EXCEPT !.pc = "fetch", !.seen = Seen])
    /\ UNCHANGED <<loadVars, searchVars, now, ticks, txt, zipf, refreshFailed, lastWriter>>

\* http_get_bytes raises
FetchFail(p) ==
    /\ proc[p].pc = "fetch"
    /\ SetProc(p, Raised([proc[p] EXCEPT !.netCalls = @ + 1]))
    /\ refreshFailed' = TRUE
    /\ UNCHANGED <<loadVars, searchVars, now, ticks, cacheDir, txt, zipf, lastWriter>>

\* http_get_bytes returns the response body
FetchOk(p) ==
    /\ proc[p].pc = "fetch"
    /\ \E a \in Archives :
         SetProc(p, [proc[p] EXCEPT !.netCalls = @ + 1, !.data = a, !.pc = "write_zip"])
    /\ UNCHANGED <<loadVars, searchVars, now, ticks, cacheDir, txt, zipf, refreshFailed, lastWriter>>

\* open(GEONAMES_ZIP, "wb") fails, or the write after it does
WriteZipFail(p) ==
    /\ proc[p].pc = "write_zip"
    /\ \E opened \in BOOLEAN :
         zipf' = IF opened THEN [exists |-> TRUE, data |-> NoData] ELSE zipf
    /\ SetProc(p, Raised(proc[p]))
    /\ refreshFailed' = TRUE
    /\ UNCHANGED <<loadVars, searchVars, now, ticks, cacheDir, txt, lastWriter>>

\* the archive is saved; zipfile.ZipFile or zf.open("US.txt") then rejects the bytes
WriteZipBadArchive(p) ==
    /\ proc[p].pc = "write_zip"
    /\ proc[p].data.kind \in {"garbage", "no_entry"}
    /\ zipf' = [exists |-> TRUE, data |-> proc[p].data]
    /\ SetProc(p, Raised(proc[p]))
    /\ refreshFailed' = TRUE
    /\ UNCHANGED <<loadVars, searchVars, now, ticks, cacheDir, txt, lastWriter>>

\* the archive is saved and its entry US.txt opens
WriteZipOk(p) ==
    /\ proc[p].pc = "write_zip"
    /\ proc[p].data.kind \notin {"garbage", "no_entry"}
    /\ zipf' = [exists |-> TRUE, data |-> proc[p].data]
    /\ SetProc(p, [proc[p] EXCEPT !.pc = "open_txt"])
    /\ UNCHANGED <<loadVars, searchVars, now, ticks, cacheDir, txt, refreshFailed, lastWriter>>

\* open(GEONAMES_TXT, "wb") fails
OpenTxtFail(p) ==
    /\ proc[p].pc = "open_txt"
    /\ SetProc(p, Raised(proc[p]))
    /\ refreshFailed' = TRUE
    /\ UNCHANGED <<loadVars, searchVars, now, ticks, cacheDir, txt, zipf, lastWriter>>

\* open(GEONAMES_TXT, "wb") creates the file or truncates it to length 0
OpenTxtOk(p) ==
    /\ proc[p].pc = "open_txt"
    /\ txt' = [exists |-> TRUE, data |-> "", mtime |-> now]
    /\ SetProc(p, [proc[p] EXCEPT !.pc = "extract"])
    /\ UNCHANGED <<loadVars, searchVars, now, ticks, cacheDir, zipf, refreshFailed, lastWriter>>

\* ztxt.read() raises BadZipFile; the opened flat-file is closed as it is
ExtractBadCrc(p) ==
    /\ proc[p].pc = "extract"
    /\ proc[p].data.kind = "bad_crc"
    /\ SetProc(p, Raised(proc[p]))
    /\ refreshFailed' = TRUE
    /\ UNCHANGED <<loadVars, searchVars, now, ticks, cacheDir, txt, zipf, lastWriter>>

\* out.write(...) fails part-way
ExtractWriteFail(p) ==
    /\ proc[p].pc = "extract"
    /\ proc[p].data.kind = "good"
    /\ \E part \in PartialWrites(proc[p].data.content) :
         txt' = [exists |-> TRUE, data |-> Overlay(txt.data, part), mtime |-> now]
    /\ SetProc(p, Raised(proc[p]))
    /\ refreshFailed' = TRUE
    /\ UNCHANGED <<loadVars, searchVars, now, ticks, cacheDir, zipf, lastWriter>>

\* out.write(ztxt.read()) and the close; ensure_geonames_us returns the path
ExtractOk(p) ==
    /\ proc[p].pc = "extract"
    /\ proc[p].data.kind = "good"
    /\ txt' = [exists |-> TRUE, data |-> Overlay(txt.data, proc[p].data.content),
               mtime |-> now]
    /\ SetProc(p, [proc[p] EXCEPT !.pc = "read", !.data = NoData])
    /\ refreshFailed' = FALSE
    /\ lastWriter' = proc[p].data.content
    /\ UNCHANGED <<loadVars, searchVars, now, ticks, cacheDir, zipf>>

\* load_geonames_rows reads the file.  No row: RuntimeError.  Otherwise the
\* lookups run and get_zip_and_nearby returns.
ReadAndSearch(p) ==
    /\ proc[p].pc = "read"
    /\ LET loaded == LoadRows(txt.data)
       IN  IF loaded.status = "error"
           THEN SetProc(p, Raised(proc[p]))
           ELSE SetProc(p, Searched(proc[p], loaded.rows))
    /\ UNCHANGED <<loadVars, searchVars, now, ticks, cacheDir, txt, zipf, refreshFailed, lastWriter>>

\* time passes between steps
Tick ==
    /\ ticks < MaxTicks
    /\ \E d \in TickSteps : now' = now + d
    /\ ticks' = ticks + 1
    /\ UNCHANGED <<loadVars, searchVars, cacheDir, txt, zipf, proc, refreshFailed, lastWriter>>

IdleLoad == fileText = "" /\ loadResult = NotLoaded
NoQuery == [lat |-> 0, lon |-> 0, radius_km |-> 0, rows |-> <<>>]
IdleSearch ==
    /\ query = NoQuery
    /\ nearbyOut = NotLoaded
    /\ nearestOut = [status |-> "none"]

InitCache ==
    \/ /\ cacheDir \in BOOLEAN
       /\ txt = [exists |-> FALSE, data |-> "", mtime |-> 0]
       /\ zipf = [exists |-> FALSE, data |-> NoData]
    \/ /\ cacheDir = TRUE
       /\ \E age \in InitAges : txt = [exists |-> TRUE, data |-> DatasetA, mtime |-> 0 - age]
       /\ zipf = [exists |-> TRUE, data |-> Archive("good", DatasetA)]

Init ==
    /\ now = 0
    /\ ticks = 0
    /\ InitCache
    /\ proc = [p \in Procs |-> InitProc(ToolOf(p), ArgsOf(p))]
    /\ refreshFailed = FALSE
    /\ lastWriter = ""
    /\ IdleLoad
    /\ IdleSearch

Step(p) ==
    \/ GeocodeOk(p) \/ GeocodeRetry(p) \/ GeocodeGiveUp(p)
    \/ EnsureFresh(p) \/ EnsureStale(p)
    \/ FetchFail(p) \/ FetchOk(p)
    \/ WriteZipFail(p) \/ WriteZipBadArchive(p) \/ WriteZipOk(p)
    \/ OpenTxtFail(p) \/ OpenTxtOk(p)
    \/ ExtractBadCrc(p) \/ ExtractWriteFail(p) \/ ExtractOk(p)
    \/ ReadAndSearch(p)

Next == Tick \/ \E p \in Procs : Step(p)

Spec == Init /\ [][Next]_vars

(***************************************************************************)
(* load_geonames_rows on files of a few lines.                             *)
(***************************************************************************)
MaxLines == 3

LineShort == "US\t123\tX\t\tNY\n"
LineBadLat == "US\t456\tD\t\tTX\t\t\t\t\tabc\t-100.0\t4\n"
LineNoZip == "US\t \tE\t\tTX\t\t\t\t\t30.0\t-100.0\t4\n"
LineFarNorth == "US\t789\tF\t\tTX\t\t\t\t\t123.0\t-100.0\t4\n"
LineQuote == "US\t777\t\"Q\t\tNY\t\t\t\t\t41.0\t-74.0\t4\n"
Lines == {LineA1, LineB3, LineShort, LineBadLat, LineNoZip, LineFarNorth, LineQuote}

RECURSIVE Concat(_)
Concat(seq) == IF seq = <<>> THEN "" ELSE Head(seq) \o Concat(Tail(seq))

Files == {Concat(f) : f \in UNION {[1..n -> Lines] : n \in 0..MaxLines}}

CacheIdle ==
    /\ now = 0
    /\ ticks = 0
    /\ cacheDir = FALSE
    /\ txt = [exists |-> FALSE, data |-> "", mtime |-> 0]
    /\ zipf = [exists |-> FALSE, data |-> NoData]
    /\ proc = [p \in Procs |-> InitProc(ToolOf(p), ArgsOf(p))]
    /\ refreshFailed = FALSE
    /\ lastWriter = ""

InitLoad ==
    /\ fileText \in Files
    /\ loadResult = NotLoaded
    /\ CacheIdle
    /\ IdleSearch

\* load_geonames_rows on the file
Load ==
    /\ loadResult = NotLoaded
    /\ loadResult' = LoadRows(fileText)
    /\ UNCHANGED <<fileText, cacheVars, searchVars>>

SpecLoad == InitLoad /\ [][Load]_vars

\* The pieces of s between the separators sep
RECURSIVE SplitFrom(_, _, _)
SplitFrom(s, sep, start) ==
    LET later == {k \in start..Len(s) : CharAt(s, k) = sep}
    IN  IF later = {} THEN <<SubSeq(s, start, Len(s))>>
        ELSE LET k == CHOOSE i \in later : \A j \in later : i <= j
             IN  <<SubSeq(s, start, k - 1)>> \o SplitFrom(s, sep, k + 1)

\* The lines of a text, each as its tab-separated columns
TabSeparated(text) ==
    LET lines == SplitFrom(text, NL, 1)
    IN  [i \in 1..Len(lines) |-> SplitFrom(lines[i], TAB, 1)]

\* C5, as the specification states it: the loader returns, in file order, one
\* record for each line with at least 11 tab-separated columns, numeric latitude
\* and longitude and a non-empty postal code, whatever the other lines are, and
\* fails exactly when there is no such line.
C5_OneRecordPerValidLine ==
    loadResult.status # "none" =>
      LET expected == ParseRecords(TabSeparated(fileText), 1, <<>>)
      IN  /\ loadResult.status = "error" <=> expected = <<>>
          /\ loadResult.status = "ok" => loadResult.rows = expected

\* C7, as the specification states it: every loaded point has a non-empty code,
\* a latitude in [-90, 90] and a longitude in [-180, 180].
C7_LoadedPointsInRange ==
    \A i \in 1..Len(loadResult.rows) :
      /\ loadResult.rows[i].zip # ""
      /\ loadResult.rows[i].lat >= -900 /\ loadResult.rows[i].lat <= 900
      /\ loadResult.rows[i].lon >= -1800 /\ loadResult.rows[i].lon <= 1800

(***************************************************************************)
(* nearest_zip and nearby_zips_by_radius on small point sets.              *)
(***************************************************************************)
MaxPoints == 3

Points ==
    { Row("00001", "Anti", "FJ", 0, -1700),
      Row("00002", "High", "NU", 800, 800),
      Row("00003", "Here", "NV", 400, -1200),
      Row("00004", "East", "UT", 400, -1100),
      Row("00005", "West", "CA", 400, -1300),
      Row("00006", "North", "ID", 500, -1200),
      Row("00007", "South", "AZ", 300, -1200) }

QueryPoints == {<<0, 1700>>, <<800, 0>>, <<400, -1200>>}
Radii == {0, 1500, 2500}

InitSearch ==
    /\ \E q \in QueryPoints, r \in Radii :
       \E rows \in UNION {[1..n -> Points] : n \in 0..MaxPoints} :
         query = [lat |-> q[1], lon |-> q[2], radius_km |-> r, rows |-> rows]
    /\ nearbyOut = NotLoaded
    /\ nearestOut = [status |-> "none"]
    /\ CacheIdle
    /\ IdleLoad

\* nearby_zips_by_radius on the query
Nearby ==
    /\ nearbyOut = NotLoaded
    /\ nearbyOut' = [status |-> "ok",
                     rows |-> nearby_zips_by_radius(query.lat, query.lon,
                                                    query.radius_km, query.rows)]
    /\ UNCHANGED <<query, nearestOut, cacheVars, loadVars>>

\* nearest_zip on the query
Nearest ==
    /\ nearestOut.status = "none"
    /\ nearestOut' = nearest_zip(query.lat, query.lon, query.rows)
    /\ UNCHANGED <<query, nearbyOut, cacheVars, loadVars>>

NextSearch == Nearby \/ Nearest

SpecSearch == InitSearch /\ [][NextSearch]_vars

DistTo(r) == haversine_km(query.lat, query.lon, r.lat, r.lon)

WithoutDist(x) == Row(x.zip, x.city, x.state, x.lat, x.lon)

\* C2, as the specification states it: every result lies within the radius, and
\* every point of the set within the radius is among the results.
C2_PruneComplete ==
    nearbyOut.status = "ok" =>
      /\ \A i \in 1..Len(nearbyOut.rows) : nearbyOut.rows[i].dist_km <= query.radius_km
      /\ \A k \in 1..Len(query.rows) :
           DistTo(query.rows[k]) <= query.radius_km =>
             \E i \in 1..Len(nearbyOut.rows) :
               WithoutDist(nearbyOut.rows[i]) = query.rows[k]

\* C3: the results are in non-decreasing order of dist_km, and the results at any
\* one distance are, in order, the rows of the point set that are results at that
\* distance.
C3_SortedAndStable ==
    nearbyOut.status = "ok" =>
      LET out == nearbyOut.rows
      IN  /\ \A i \in 1..(Len(out) - 1) : out[i].dist_km <= out[i + 1].dist_km
          /\ \A n \in 1..Len(out) :
               LET d == out[n].dist_km
                   AtD(x) == x.dist_km = d
                   IsResultAtD(r) ==
                     \E i \in 1..Len(out) : out[i].dist_km = d /\ WithoutDist(out[i]) = r
                   tied == SelectSeq(out, AtD)
               IN  [i \in 1..Len(tied) |-> WithoutDist(tied[i])]
                     = SelectSeq(query.rows, IsResultAtD)

\* Three results: two different points at the same distance, in the order of the
\* point set, behind a nearer one.
C3_Witness ==
    /\ nearbyOut.status = "ok"
    /\ Len(nearbyOut.rows) = 3
    /\ nearbyOut.rows[1].dist_km < nearbyOut.rows[2].dist_km
    /\ nearbyOut.rows[2].dist_km = nearbyOut.rows[3].dist_km
    /\ nearbyOut.rows[2].zip # nearbyOut.rows[3].zip
    /\ query.rows[1] = WithoutDist(nearbyOut.rows[2])
    /\ query.rows[2] = WithoutDist(nearbyOut.rows[3])

\* C4: on a non-empty point sequence nearest_zip returns the first point at the
\* smallest distance, with that distance; on the empty sequence it ends in an
\* error.
C4_FirstNearest ==
    nearestOut.status # "none" =>
      IF query.rows = <<>>
      THEN nearestOut.status = "error"
      ELSE /\ nearestOut.status = "ok"
           /\ \E k \in 1..Len(query.rows) :
                /\ query.rows[k] = Row(nearestOut.zip, nearestOut.city, nearestOut.state,
                                       nearestOut.lat, nearestOut.lon)
                /\ nearestOut.dist_km = DistTo(query.rows[k])
                /\ \A j \in 1..Len(query.rows) : DistTo(query.rows[j]) >= nearestOut.dist_km
                /\ \A j \in 1..(k - 1) : DistTo(query.rows[j]) > nearestOut.dist_km

\* Two different points at the smallest distance behind a farther one: the first
\* of the two is returned.
C4_Witness ==
    /\ nearestOut.status = "ok"
    /\ Len(query.rows) = 3
    /\ DistTo(query.rows[1]) > DistTo(query.rows[2])
    /\ DistTo(query.rows[2]) = DistTo(query.rows[3])
    /\ query.rows[2] # query.rows[3]
    /\ nearestOut.zip = query.rows[2].zip
    /\ nearestOut.dist_km = DistTo(query.rows[2])

(***************************************************************************)
(* Properties of the cache and of the command-line tools.                  *)
(***************************************************************************)
Refreshing == {"fetch", "write_zip", "open_txt", "extract"}

\* C1: a call of ensure_geonames_us downloads if and only if the flat-file is
\* absent or at least MAX_AGE_DAYS old.  On a file younger than that the call
\* returns the path at once, with no download and with the archive and the
\* flat-file left as they were; otherwise it goes on to the download, and a call
\* downloads once: only the fetch step downloads, and a process passes it once.
C1_FetchIffAbsentOrOld ==
    [][\A p \in Procs :
         LET young == txt.exists /\ now - txt.mtime < MAX_AGE_DAYS * SECONDS_PER_DAY
         IN  /\ (proc[p].pc = "ensure" /\ proc'[p].pc # "ensure") =>
                  IF young
                  THEN /\ proc'[p].pc = "read"
                       /\ proc'[p].netCalls = 0
                       /\ txt' = txt /\ zipf' = zipf
                  ELSE /\ proc'[p].pc = "fetch"
                       /\ proc'[p].netCalls = 0
             /\ (proc[p].pc = "fetch" /\ proc'[p].pc # "fetch") =>
                  /\ proc[p].netCalls = 0
                  /\ proc'[p].netCalls = 1
             /\ proc[p].pc # "fetch" => proc'[p].netCalls = proc[p].netCalls
             /\ proc'[p].pc = "fetch" => proc[p].pc \in {"ensure", "fetch"}
             /\ proc'[p].pc = "ensure" => proc[p].pc \in {"geocode", "ensure"}]_vars

\* One process was handed a file one second short of the limit without a download,
\* another found the same file at exactly the limit and downloaded once.
C1_Witness ==
    \E p, q \in Procs :
      /\ proc[p].seen.checked /\ proc[p].seen.exists
      /\ proc[p].seen.age = MAX_AGE_DAYS * SECONDS_PER_DAY
      /\ proc[p].netCalls = 1
      /\ proc[q].seen.checked /\ proc[q].seen.exists
      /\ proc[q].seen.age = MAX_AGE_DAYS * SECONDS_PER_DAY - 1
      /\ proc[q].netCalls = 0 /\ proc[q].pc = "done"

\* C6, as the specification states it: after a refresh has failed and none has
\* succeeded since, a call (made while nobody else is refreshing) that returns
\* the path returns a complete dataset.
C6_NoFallbackAfterFailedRefresh ==
    [][\A p \in Procs :
         ( /\ proc[p].pc = "ensure" /\ proc'[p].pc = "read"
           /\ refreshFailed
           /\ \A q \in Procs : proc[q].pc \notin Refreshing )
         => txt.data \in Datasets]_vars

\* C8: once reverse geocoding has failed for good in the lookup tool, the postal
\* code is None and "<unknown>" is printed, the query goes on to the nearby
\* search, and what get_zip_and_nearby returns is None with the list that the
\* nearby search yields on the rows it loaded (the empty list when the dataset
\* layer failed).
C8_GeocodeFailureDegrades ==
    \A p \in Procs :
      (proc[p].tool = "lookup" /\ proc[p].attempt = RETRIES) =>
        /\ proc[p].zip_here = None
        /\ proc[p].stdout # <<>> /\ proc[p].stdout[1] = "ZIP <unknown>"
        /\ proc[p].pc = "done" =>
             /\ proc[p].ret.kind = "return"
             /\ proc[p].ret.zip_here = None
             /\ proc[p].load.status \in {"ok", "error"}
             /\ proc[p].ret.nearby =
                  IF proc[p].load.status = "ok"
                  THEN nearby_zips_by_radius(proc[p].args.lat, proc[p].args.lon,
                                             proc[p].args.radius, proc[p].load.rows)
                  ELSE <<>>

\* A lookup run whose geocoding failed returned a non-empty nearby list.
C8_Witness ==
    \E p \in Procs :
      /\ proc[p].tool = "lookup" /\ proc[p].attempt = RETRIES
      /\ proc[p].pc = "done"
      /\ proc[p].ret.nearby # <<>>

\* C9, as the specification states it: every run of either tool ends with exit
\* code 0 and a returned result.
C9_ExitCodeZero ==
    \A p \in Procs :
      proc[p].pc = "done" => proc[p].exitCode = 0 /\ proc[p].ret.kind = "return"

IsStrictPrefix(s, t) == Len(s) < Len(t) /\ s = SubSeq(t, 1, Len(s))

\* C10, as the specification states it: while no download, archive or write has
\* failed, a process that the freshness check handed the flat-file never reads an
\* empty file or a strict prefix of a dataset, and when every process has
\* finished the flat-file holds what the last completed write extracted.
C10_NeverPartiallyWritten ==
    [][/\ \A p \in Procs :
            ( /\ proc[p].pc = "read" /\ proc'[p].pc = "done"
              /\ proc[p].netCalls = 0
              /\ ~refreshFailed
              /\ \A q \in Procs : proc[q].data.kind \in {"none", "good"} )
            => \A d \in Datasets : ~IsStrictPrefix(txt.data, d)
       /\ ( /\ \A q \in Procs : proc'[q].pc = "done"
            /\ ~refreshFailed'
            /\ lastWriter' # "" )
          => txt'.data = lastWriter']_vars

====
